---- MODULE Spec2Model ----
(***************************************************************************)
(* Model of src/app.py, a Streamlit script.  The script is re-executed     *)
(* from top to bottom on every interaction (a widget change, the Refresh   *)
(* button, the auto-refresh timer of line 18, the sleep/rerun of lines     *)
(* 225-226).  One action of the model is one such interaction followed by  *)
(* the whole script run it causes.  What lives across runs is the          *)
(* st.cache_data entry of fetch_data and the session's widget state.       *)
(***************************************************************************)
EXTENDS Integers, Sequences, FiniteSets, TLC

VARIABLES
    cache,   \* the st.cache_data entry of fetch_data: [has, value]
    age,     \* seconds since the entry was stored, saturating at TTL
    ss,      \* widget state of the session: the four multiselects, the checkbox
    run,     \* what the last script run did and computed
    prev,    \* the same facts about the run before it
    pc,      \* "sleeping" while a run is inside time.sleep(60), else "idle"
    last_checked,  \* st.session_state.last_checked, kept as the seconds
                   \* since it was written (saturating at TTL), -1: not set
    api      \* an API response and what extract_records made of it (followed
             \* in UnwrapSpec only; the runs keep the fetched value in run.raw)

vars == <<cache, age, ss, run, prev, pc, last_checked, api>>

-----------------------------------------------------------------------------
(* Bounds and program constants *)

MaxRecords == 2          \* records in one API payload
MaxWide == 11            \* records in a payload of many venues and dates
MaxKeys == 2             \* keys of a JSON object the API answers with
Pause == 900             \* seconds a user may let pass before an interaction

TTL == 1800              \* @st.cache_data(ttl=1800)
SleepSeconds == 60       \* time.sleep(60)
AutoRefreshSeconds == 1800   \* st_autorefresh(interval=30 * 60 * 1000)
VenueDefaultCount == 3   \* venue_options[:3]
VenueDefaultLimit == 5   \* len(venue_options) <= 5
DateDefaultCount == 5    \* date_options[:5]
DateDefaultLimit == 10   \* len(date_options) <= 10

Null == "<null>"         \* JSON null / a missing key (None, NaN in the frame)
Missing == <<Null>>      \* the same, as the text of Available_Courts

Levels == 1..4
Dim == <<"District_Name_EN", "Venue_Name_EN", "Available_Date", "Session_Start_Time">>

-----------------------------------------------------------------------------
(* Records of the data source.  Available_Courts arrives as text: a        *)
(* sequence of characters, or Missing when the key is absent or null.      *)

Rec(d, v, dt, t, c) ==
    [District_Name_EN |-> d, Venue_Name_EN |-> v, Available_Date |-> dt,
     Session_Start_Time |-> t, Available_Courts |-> c]

\* The records of the app's runs: two districts with their own venues, and
\* a row without availability.
CoreUniverse ==
    { Rec("A", "V1", "D1", "T1", <<"2">>),
      Rec("B", "V2", "D1", "T2", <<"1">>),
      Rec("A", "V2", "D1", "T2", <<"0">>) }

\* The records the funnel is computed over: also a second date, a missing
\* venue, and counts that are fractional, negative, no number, or missing.
Universe ==
    CoreUniverse \cup
    { Rec("A", "V2", "D2", "T2", <<"1", "0">>),
      Rec("A", Null, "D1", "T1", <<"1", ".", "5">>),
      Rec("B", "V1", "D2", "T1", <<"x">>),
      Rec("A", "V1", "D1", "T2", Missing),
      Rec("B", "V2", "D2", "T1", <<"-", "1">>),
      Rec("B", "V1", "D1", "T1", <<"0", ".", "9">>) }

Payloads(U) == { S \in SUBSET U : Cardinality(S) <= MaxRecords }

\* Payloads with enough venues and dates for every branch of the
\* multiselect defaults: the k-th has k dates over up to six venues.
WideVenues == <<"V1", "V2", "V3", "V4", "V5", "V6">>
WideDates == <<"D1", "D2", "D3", "D4", "D5", "D6", "D7", "D8", "D9", "E1", "E2", "E3">>
WideRecord(j) ==
    Rec("A", WideVenues[IF j < Len(WideVenues) THEN j ELSE Len(WideVenues)],
        WideDates[j], IF j % 2 = 1 THEN "T1" ELSE "T2", <<"1">>)
WidePayloads == { { WideRecord(j) : j \in 1..k } : k \in 1..MaxWide }

\* Python's order on the strings that occur as dimension values
StrOrder ==
    <<"A", "B",
      "D1", "D2", "D3", "D4", "D5", "D6", "D7", "D8", "D9", "E1", "E2", "E3",
      "T1", "T2",
      "V1", "V2", "V3", "V4", "V5", "V6">>
Rank(v) == CHOOSE i \in 1..Len(StrOrder) : StrOrder[i] = v

-----------------------------------------------------------------------------
(* pd.to_numeric(..., errors="coerce").fillna(0).astype(int) *)

Digits == {"0", "1", "2", "3", "4", "5", "6", "7", "8", "9"}
DigitVal(c) ==
    CASE c = "0" -> 0 [] c = "1" -> 1 [] c = "2" -> 2 [] c = "3" -> 3
      [] c = "4" -> 4 [] c = "5" -> 5 [] c = "6" -> 6 [] c = "7" -> 7
      [] c = "8" -> 8 [] c = "9" -> 9

IsDigits(s) == \A i \in 1..Len(s) : s[i] \in Digits

RECURSIVE DigitsValue(_)
DigitsValue(s) ==
    IF s = <<>> THEN 0
    ELSE DigitsValue(SubSeq(s, 1, Len(s) - 1)) * 10 + DigitVal(s[Len(s)])

NaN == [nan |-> TRUE, neg |-> FALSE, ip |-> 0]

\* The float a text parses to, kept as sign and integer part (the fraction
\* is cut by astype(int) below); NaN when the text is no number.
ToNumeric(c) ==
    IF c = Missing \/ c = <<>> THEN NaN
    ELSE
      LET neg  == c[1] = "-"
          body == IF c[1] \in {"-", "+"} THEN Tail(c) ELSE c
          dots == { i \in 1..Len(body) : body[i] = "." }
          dot  == IF dots = {} THEN Len(body) + 1 ELSE CHOOSE i \in dots : TRUE
          ipart == SubSeq(body, 1, dot - 1)
          fpart == SubSeq(body, dot + 1, Len(body))
      IN  IF /\ Cardinality(dots) <= 1
             /\ IsDigits(ipart) /\ IsDigits(fpart)
             /\ Len(ipart) + Len(fpart) > 0
          THEN [nan |-> FALSE, neg |-> neg, ip |-> DigitsValue(ipart)]
          ELSE NaN

\* .fillna(0).astype(int): NaN becomes 0, a float is truncated toward zero
CoerceCount(c) ==
    LET n == ToNumeric(c)
    IN  IF n.nan THEN 0 ELSE IF n.neg THEN 0 - n.ip ELSE n.ip

AvailableDfKeepsZero(raw_records) == { r \in raw_records : CoerceCount(r.Available_Courts) >= 0 }
\* available_df = df[df["Available_Courts"] > 0]
AvailableDf(raw_records) ==
    { r \in raw_records : CoerceCount(r.Available_Courts) > 0 }

-----------------------------------------------------------------------------
(* The API response and fetch_data *)

KeyOrder == <<"data", "contents", "result", "items", "records">>

ListOf(recs) == [list |-> TRUE, recs |-> recs]
NotAList == [list |-> FALSE, recs |-> {}]

FailureKinds == {"network_error", "bad_status", "malformed_json"}

\* What requests.get(...).json() can yield or raise, for the payloads P: a
\* JSON list, a JSON object (its keys mapped to list or non-list values),
\* another JSON value, or one of the failures.
ResponsesOver(P) ==
    [kind : FailureKinds] \cup
    { [kind |-> "scalar"] } \cup
    { [kind |-> "list", recs |-> d] : d \in P } \cup
    { [kind |-> "object", fields |-> (k :> ListOf(d))] :
          k \in {"data", "records", "meta"}, d \in { S \in P : Cardinality(S) = 1 } } \cup
    { [kind |-> "object", fields |-> ("data" :> NotAList) @@ ("items" :> ListOf(d))] :
          d \in { S \in P : Cardinality(S) = 1 } }

Responses == ResponsesOver(Payloads(CoreUniverse))
FunnelResponses == ResponsesOver(Payloads(Universe))

RECURSIVE FirstPresentKey(_, _)
FirstPresentKey(fields, i) ==
    IF i > Len(KeyOrder) THEN {}
    ELSE IF KeyOrder[i] \in DOMAIN fields
         THEN fields[KeyOrder[i]].recs
         ELSE FirstPresentKey(fields, i + 1)
RECURSIVE FirstListKey(_, _)
\* for key in (...): if key in raw and isinstance(raw[key], list): return raw[key]
FirstListKey(fields, i) ==
    IF i > Len(KeyOrder) THEN {}
    ELSE IF KeyOrder[i] \in DOMAIN fields /\ fields[KeyOrder[i]].list
         THEN fields[KeyOrder[i]].recs
         ELSE FirstListKey(fields, i + 1)

extract_records(raw) ==
    IF raw.kind = "list" THEN raw.recs
    ELSE IF raw.kind = "object" THEN FirstListKey(raw.fields, 1)
    ELSE {}

\* The JSON values extract_records is followed over: lists, a scalar, and
\* objects of up to MaxKeys keys whose values are lists (an empty one
\* included) or something else.
UnwrapKeys == {"data", "contents", "result", "items", "records", "meta"}
UnwrapLists == { {} } \cup { S \in Payloads(CoreUniverse) : Cardinality(S) = 1 }
UnwrapInputs ==
    { [kind |-> "scalar"] } \cup
    { [kind |-> "list", recs |-> d] : d \in Payloads(CoreUniverse) } \cup
    { [kind |-> "object", fields |-> f] :
          f \in UNION { [K -> {NotAList} \cup { ListOf(d) : d \in UnwrapLists }] :
                          K \in { S \in SUBSET UnwrapKeys : Cardinality(S) <= MaxKeys } } }

NoCall == [resp |-> [kind |-> "none"], records |-> {}]

None == [none |-> TRUE, recs |-> {}]
Some(recs) == [none |-> FALSE, recs |-> recs]

\* The body of fetch_data: the records, or None when the request raised
fetch_data(resp) ==
    IF resp.kind \in FailureKinds THEN None ELSE Some(extract_records(resp))

\* the values a call of fetch_data can return
Fetched == { fetch_data(resp) : resp \in Responses }
FunnelFetched == { fetch_data(resp) : resp \in FunnelResponses }
WideFetched == { fetch_data(resp) : resp \in ResponsesOver(WidePayloads) }

NoEntry == [has |-> FALSE, value |-> None]

CacheValidThroughTTL(c, a) == c.has /\ a <= TTL
CacheNeverValid(c, a) == FALSE
\* st.cache_data(ttl=1800): a stored return value (None included) is
\* reused while it is younger than the ttl
CacheValid(c, a) == c.has /\ a < TTL

Min(a, b) == IF a < b THEN a ELSE b

-----------------------------------------------------------------------------
(* The cascading filters *)

RECURSIVE SortedSeq(_)
\* sorted(...)
SortedSeq(S) ==
    IF S = {} THEN <<>>
    ELSE LET m == CHOOSE x \in S : \A y \in S : Rank(x) <= Rank(y)
         IN  <<m>> \o SortedSeq(S \ {m})

Range(q) == { q[i] : i \in 1..Len(q) }
Take(q, n) == SubSeq(q, 1, Min(n, Len(q)))

\* sorted(scope_df[col].dropna().unique())
Options(df, i) == SortedSeq({ r[Dim[i]] : r \in df } \ {Null})

RestrictEmptyMatchesNothing(df, i, sel) == { r \in df : r[Dim[i]] \in sel }
\* if selected: df = df[df[col].isin(selected)]
Restrict(df, i, sel) ==
    IF sel # {} THEN { r \in df : r[Dim[i]] \in sel } ELSE df

DefaultAllBelowLimit(i, opts) ==
    CASE i = 1 -> Range(Take(opts, 1))
      [] i = 2 -> IF Len(opts) <= VenueDefaultLimit THEN Range(opts) ELSE {}
      [] i = 3 -> IF Len(opts) <= DateDefaultLimit THEN Range(opts) ELSE {}
      [] i = 4 -> Range(opts)
\* the multiselect's default= argument at each level
Default(i, opts) ==
    CASE i = 1 -> Range(Take(opts, 1))
      [] i = 2 -> IF Len(opts) <= VenueDefaultLimit
                  THEN Range(Take(opts, VenueDefaultCount)) ELSE {}
      [] i = 3 -> IF Len(opts) <= DateDefaultLimit
                  THEN Range(Take(opts, DateDefaultCount)) ELSE {}
      [] i = 4 -> Range(opts)

NoWidget == [has |-> FALSE, val |-> {}, opts |-> <<>>]
Cleared == [sel |-> [i \in Levels |-> NoWidget], mon |-> [has |-> FALSE, val |-> FALSE]]

MultiselectKeepsStale(w, opts, i) == IF w.has THEN {w.val} ELSE {Default(i, opts)}
\* st.sidebar.multiselect(options=, default=, key=): the values the widget can
\* return.  Without stored state it returns the default; with the options it
\* was last rendered with it returns the stored choice; with other options
\* its identity is new and it returns the default, or (key-identified
\* widgets) the stored choice cut down to the options.
Multiselect(w, opts, i) ==
    IF ~w.has THEN {Default(i, opts)}
    ELSE IF w.opts = opts THEN {w.val}
    ELSE {Default(i, opts), w.val \cap Range(opts)}

\* scope_df when level i's options are computed: the selections above it applied
RECURSIVE Scope(_, _, _)
Scope(available_df, sel, i) ==
    IF i = 1 THEN available_df
    ELSE Restrict(Scope(available_df, sel, i - 1), i - 1, sel[i - 1])

FilteredDfSkipsVenue(available_df, sel) ==
    Restrict(Restrict(Restrict(available_df, 1, sel[1]), 3, sel[3]), 4, sel[4])
\* filtered_df: every non-empty selection applied to available_df
FilteredDf(available_df, sel) ==
    Restrict(Restrict(Restrict(Restrict(available_df, 1, sel[1]), 2, sel[2]), 3, sel[3]), 4, sel[4])

NotifyRisingEdge(enable_live_monitor, target_found) ==
    /\ enable_live_monitor /\ target_found
    /\ ~(run.outcome = "shown" /\ run.enable /\ run.found)
NotifyWithoutMonitor(enable_live_monitor, target_found) == target_found
\* if enable_live_monitor and target_found: ... js_show_notification
Notify(enable_live_monitor, target_found) == enable_live_monitor /\ target_found

ScheduledWhileMonitoring(enable_live_monitor, target_found) == enable_live_monitor
\* if filtered_df.empty: if enable_live_monitor: time.sleep(60); st.rerun()
Scheduled(enable_live_monitor, target_found) == enable_live_monitor /\ ~target_found

-----------------------------------------------------------------------------
(* One script run *)

NoSel == [i \in Levels |-> {}]

\* What a run did: how it ended, how often it called the data source,
\* whether the Refresh button started it, the age of the entry it found (-1:
\* none), what fetch_data() returned, the four selections,
\* filtered_df, scope_df as the time options were computed from it, whether
\* the selections are those of the run before, whether
\* a stored choice had lost an option, the checkbox, target_found, and
\* whether the notification was sent.
InitRun ==
    [outcome |-> "init", fetches |-> 0, refresh |-> FALSE, entryAge |-> 0 - 1,
     raw |-> None, sel |-> NoSel, filtered |-> {}, scope |-> {},
     sameSel |-> FALSE,
     stale |-> FALSE, enable |-> FALSE, found |-> FALSE, notify |-> FALSE]

\* what the next run remembers of this one
Summary(r) ==
    [matched |-> r.outcome = "shown" /\ r.enable /\ r.found,
     failed  |-> r.fetches > 0 /\ r.raw.none,
     good    |-> r.outcome # "init" /\ ~r.raw.none]

Init ==
    /\ cache = NoEntry
    /\ age = 0
    /\ ss = Cleared
    /\ run = InitRun
    /\ prev = Summary(InitRun)
    /\ pc = "idle"
    /\ last_checked = 0 - 1
    /\ api = NoCall

\* a time span d later, for a count of seconds that may be unset
Later(since, d) == IF since < 0 THEN since ELSE Min(since + d, TTL)

\* last_checked as the next run finds it (see Now below)
LastCheckedNow == IF pc = "sleeping" THEN Later(last_checked, SleepSeconds) ELSE last_checked

LastCheckedEveryRun(reached, since) == 0
\* Lines 200-202: st.session_state.last_checked = datetime.now()..., in a
\* run that gets to these lines; a run that stopped above leaves the key alone
LastChecked(reached, since) == IF reached THEN 0 ELSE since

\* enable_live_monitor: the checkbox, value=False until the user ticks it
Checkbox(ss0) == IF ss0.mon.has THEN ss0.mon.val ELSE FALSE

\* A run that ends in st.stop() before the sidebar widgets are rendered.
\* Streamlit drops the state of the widgets a run did not render.
Stopped(outcome, value, fetches, refresh, entryAge, ss0) ==
    /\ run' = [outcome |-> outcome, fetches |-> fetches, refresh |-> refresh,
               entryAge |-> entryAge, raw |-> value, sel |-> NoSel,
               filtered |-> {}, scope |-> {}, sameSel |-> FALSE, stale |-> FALSE,
               enable |-> Checkbox(ss0), found |-> FALSE, notify |-> FALSE]
    /\ ss' = Cleared
    /\ pc' = "idle"
    /\ last_checked' = LastChecked(FALSE, LastCheckedNow)

\* Lines 134-226: the four multiselects, filtered_df, the checkbox, the alert
\* block and the sleep/rerun.
Shown(value, fetches, refresh, entryAge, ss0) ==
    \E available_df \in {AvailableDf(value.recs)} :
    \E opts1 \in {Options(available_df, 1)} :
    \E s1 \in Multiselect(ss0.sel[1], opts1, 1) :
    \E scope2 \in {Restrict(available_df, 1, s1)} :
    \E opts2 \in {Options(scope2, 2)} :
    \E s2 \in Multiselect(ss0.sel[2], opts2, 2) :
    \E scope3 \in {Restrict(scope2, 2, s2)} :
    \E opts3 \in {Options(scope3, 3)} :
    \E s3 \in Multiselect(ss0.sel[3], opts3, 3) :
    \E scope4 \in {Restrict(scope3, 3, s3)} :
    \E opts4 \in {Options(scope4, 4)} :
    \E s4 \in Multiselect(ss0.sel[4], opts4, 4) :
    \E filtered_df \in {FilteredDf(available_df, <<s1, s2, s3, s4>>)} :
      LET sel  == <<s1, s2, s3, s4>>
          opts == <<opts1, opts2, opts3, opts4>>
          enable_live_monitor == Checkbox(ss0)
          target_found == filtered_df # {}
      IN
      /\ run' = [outcome |-> "shown", fetches |-> fetches, refresh |-> refresh,
                 entryAge |-> entryAge, raw |-> value, sel |-> sel,
                 filtered |-> filtered_df, scope |-> scope4,
                 sameSel |-> run.outcome = "shown" /\ sel = run.sel,
                 stale |-> \E i \in Levels :
                              ~(ss0.sel[i].val \subseteq Range(opts[i])),
                 enable |-> enable_live_monitor, found |-> target_found,
                 notify |-> Notify(enable_live_monitor, target_found)]
      /\ ss' = [sel |-> [i \in Levels |->
                           [has |-> TRUE, val |-> sel[i], opts |-> opts[i]]],
                mon |-> [has |-> TRUE, val |-> enable_live_monitor]]
      /\ pc' = IF Scheduled(enable_live_monitor, target_found)
               THEN "sleeping" ELSE "idle"
      /\ last_checked' = LastChecked(TRUE, LastCheckedNow)

\* Lines 113-132 and on: what the run does with the value fetch_data() returned
Render(value, fetches, refresh, entryAge, ss0) ==
    IF value.none
    THEN Stopped("error", value, fetches, refresh, entryAge, ss0)
    ELSE IF value.recs = {}
    THEN Stopped("nodata", value, fetches, refresh, entryAge, ss0)
    ELSE IF AvailableDf(value.recs) = {}
    THEN Stopped("noavail", value, fetches, refresh, entryAge, ss0)
    ELSE Shown(value, fetches, refresh, entryAge, ss0)

\* the time that passes between two interactions
Delays == {Pause, AutoRefreshSeconds}

\* The age of the entry when the next run starts: a run inside time.sleep(60)
\* lets the next one start only when the sleep returns.
Now == IF pc = "sleeping" THEN Min(age + SleepSeconds, TTL) ELSE age

\* the age of the entry the next run finds, -1 when there is none
EntryAge == IF cache.has THEN Now ELSE 0 - 1

\* Line 111, raw_records = fetch_data(), and the rest of the run.  ss0 is
\* the widget state and cache0 the entry when the call is made, V what a
\* call of the function body can return.
Script(ss0, cache0, refresh, V) ==
    /\ prev' = Summary(run)
    /\ UNCHANGED api
    /\ \/ /\ CacheValid(cache0, Now)
          /\ cache' = cache0
          /\ age' = Now
          /\ Render(cache0.value, 0, refresh, EntryAge, ss0)
       \/ /\ ~CacheValid(cache0, Now)
          /\ \E value \in V :
               /\ cache' = [has |-> TRUE, value |-> value]
               /\ age' = 0
               /\ Render(value, 1, refresh, EntryAge, ss0)

WidgetsVisible == run.outcome = "shown"

\* Time passes with the page left alone
Elapse(d) ==
    /\ pc = "idle"
    /\ cache.has
    /\ age < TTL
    /\ age' = Min(age + d, TTL)
    /\ last_checked' = Later(last_checked, d)
    /\ UNCHANGED <<cache, ss, run, prev, pc, api>>

\* The script is run again with no widget touched: the page is loaded, the
\* auto-refresh timer fires, or (line 226) st.rerun() runs after the sleep.
Rerun(V) == Script(ss, cache, FALSE, V)

\* The user changes the choice of the multiselect of level i to S
ChangeSelection(i, S, V) ==
    /\ WidgetsVisible
    /\ S # ss.sel[i].val
    /\ Script([ss EXCEPT !.sel[i].val = S], cache, FALSE, V)

\* The user ticks or unticks "Enable Live Monitor"
ToggleMonitor(V) ==
    /\ WidgetsVisible
    /\ Script([ss EXCEPT !.mon = [has |-> TRUE, val |-> ~ss.mon.val]],
              cache, FALSE, V)

ClearKeepsEntry(c) == c
\* fetch_data.clear()
Clear(c) == NoEntry

\* The user clicks "Refresh Data": fetch_data.clear(), st.rerun(), and the
\* run that follows.  The run of the click renders no sidebar widget.
RefreshData(V) == Script(Cleared, Clear(cache), TRUE, V)

Next ==
    \/ \E d \in Delays : Elapse(d)
    \/ Rerun(Fetched)
    \/ \E i \in Levels : \E S \in SUBSET Range(ss.sel[i].opts) :
           ChangeSelection(i, S, Fetched)
    \/ ToggleMonitor(Fetched)
    \/ RefreshData(Fetched)

Spec == Init /\ [][Next]_vars

\* The funnel on its own: one page load over the wider records, then the
\* user's choices with no time passing (every later run reuses the entry).
FunnelLoad == run.outcome = "init" /\ Rerun(FunnelFetched)
FunnelSelect ==
    \E i \in Levels : \E S \in SUBSET Range(ss.sel[i].opts) :
        ChangeSelection(i, S, FunnelFetched)

FunnelNext == FunnelLoad \/ FunnelSelect

FunnelSpec == Init /\ [][FunnelNext]_vars

\* extract_records on its own, applied to one JSON value after another
Unwrap(resp) ==
    /\ api' = [resp |-> resp, records |-> extract_records(resp)]
    /\ UNCHANGED <<cache, age, ss, run, prev, pc, last_checked>>

UnwrapNext == \E resp \in UnwrapInputs : Unwrap(resp)

UnwrapSpec == Init /\ [][UnwrapNext]_vars

\* The app over the payloads of many venues and dates, the multiselects
\* left as they come up: the page is loaded, then the user refreshes the
\* data or toggles the monitor, with no time passing.
WideLoad == run.outcome = "init" /\ Rerun(WideFetched)
WideNext ==
    \/ WideLoad
    \/ ToggleMonitor(WideFetched)
    \/ RefreshData(WideFetched)

WideSpec == Init /\ [][WideNext]_vars

-----------------------------------------------------------------------------
(* Properties *)

TypeOK ==
    /\ age \in 0..TTL
    /\ pc \in {"idle", "sleeping"}
    /\ run.outcome \in {"init", "error", "nodata", "noavail", "shown"}
    /\ run.fetches \in 0..1
    /\ cache.has => cache.value = run.raw
    /\ last_checked \in (0 - 1)..TTL

\* a step that runs the script (every step but Elapse)
RunStep == ~(UNCHANGED <<cache, ss, run, prev, pc>> /\ age' > age)

RunAvailable == AvailableDf(run.raw.recs)
RunOptions(i) == Range(Options(Scope(RunAvailable, run.sel, i), i))

\* C1: with monitoring enabled and the selection unchanged, a run requests a
\* notification only if its filtered set is non-empty and the filtered set
\* of the run before it was empty.
C1_RisingEdgeOnly ==
    (run.notify /\ run.sameSel) => (run.found /\ ~prev.matched)

\* C2: after a get() whose data-source call failed, the very next get()
\* calls the data source again.
C2_FailureNotReplayed ==
    prev.failed => run.fetches = 1

\* C3: in every run that renders the filters, the selection used at each
\* level (and kept in the session) lies within the options computed at that
\* level in that run; a stored choice that lost its option is not kept.
C3_FunnelConsistency ==
    run.outcome = "shown" =>
        \A i \in Levels :
            /\ run.sel[i] \subseteq RunOptions(i)
            /\ ss.sel[i].val = run.sel[i]
            /\ Range(ss.sel[i].opts) = RunOptions(i)

C3_Witness ==
    /\ run.outcome = "shown"
    /\ run.stale

\* C4: a get() that finds an entry younger than the TTL (and no refresh)
\* calls the data source zero times and returns the entry's records, those
\* the get() before it returned; a get() that finds no entry, or one whose
\* age has reached the TTL, calls the data source exactly once and stores
\* what it returned.
C4_CacheTTL ==
    [][ (RunStep /\ ~run'.refresh) =>
          IF cache.has /\ Now < TTL
          THEN /\ run'.fetches = 0
               /\ run'.raw = cache.value
               /\ run.outcome # "init" => run'.raw = run.raw
               /\ cache' = cache
          ELSE /\ run'.fetches = 1
               /\ age' = 0
               /\ cache' = [has |-> TRUE, value |-> run'.raw] ]_vars

C4_Witness ==
    /\ run.outcome = "shown"
    /\ ~run.refresh
    /\ run.fetches = 0
    /\ run.entryAge > 0
    /\ run.entryAge < TTL

\* C5: a run whose fetch fails while monitoring is enabled still schedules
\* the next 60-second check.
C5_FailedTickRetries ==
    (run.outcome = "error" /\ run.enable) => pc = "sleeping"

\* C6: a run that follows a run which had records does not end in the
\* error state: it falls back to the last records fetched.
C6_FallsBackToLastGood ==
    prev.good => run.outcome # "error"

\* C7: with monitoring enabled and a match in the run before, a run with a
\* changed selection and a non-empty filtered set requests a notification.
C7_SelectionChangeRearm ==
    ( /\ prev.matched
      /\ run.outcome = "shown"
      /\ ~run.sameSel
      /\ run.enable
      /\ run.filtered # {} ) => run.notify

C7_Witness ==
    /\ prev.matched
    /\ run.outcome = "shown"
    /\ ~run.sameSel
    /\ run.enable
    /\ run.filtered # {}
    /\ run.notify

\* C8: at every level, the filtered records with nothing selected at that
\* level equal the filtered records with all of the level's options
\* selected, the other levels' selections being the same.
C8_EmptyEqualsAll ==
    run.outcome = "shown" =>
        \A i \in Levels :
            FilteredDf(RunAvailable, [run.sel EXCEPT ![i] = {}]) =
            FilteredDf(RunAvailable, [run.sel EXCEPT ![i] = RunOptions(i)])

\* C9: no record whose count is coerced to a value <= 0 (zero, negative, no
\* number, missing) is in the filtered records, and every option of every
\* level is the value of a record with a positive count.
C9_ZeroAvailabilityExcluded ==
    run.outcome = "shown" =>
        LET positive == { r \in run.raw.recs : CoerceCount(r.Available_Courts) > 0 }
        IN  /\ run.filtered \subseteq positive
            /\ \A i \in Levels : \A v \in Range(ss.sel[i].opts) :
                   \E r \in positive : r[Dim[i]] = v

C9_Witness ==
    /\ run.outcome = "shown"
    /\ \E r \in run.raw.recs : ToNumeric(r.Available_Courts).nan
    /\ \E r \in run.raw.recs : CoerceCount(r.Available_Courts) > 0

\* C10: the run the Refresh button starts calls the data source, whatever
\* the age of the entry, and stores what it returned; a run that follows it
\* within the TTL, without another refresh, reuses that result.
C10_RefreshInvalidates ==
    [][ /\ (RunStep /\ run'.refresh) =>
              /\ run'.fetches = 1
              /\ age' = 0
              /\ cache' = [has |-> TRUE, value |-> run'.raw]
        /\ (RunStep /\ run.refresh /\ ~run'.refresh /\ Now < TTL) =>
              /\ run'.fetches = 0
              /\ run'.raw = run.raw ]_vars

C10_Witness ==
    /\ run.refresh
    /\ run.entryAge >= 0
    /\ run.entryAge < TTL
    /\ run.fetches = 1

C12_Scenario ==
    /\ run.outcome = "shown"
    /\ run.raw.recs = { Rec("A", "V1", "D1", "T1", <<"2">>),
                        Rec("A", "V2", "D1", "T2", <<"0">>) }
    /\ run.sel = <<{"A"}, {}, {}, {}>>
\* C12 as stated: the venue options are {V1, V2}, filtered_df holds the V1 row
C12_VenueOptionsIncludeZeroRow ==
    C12_Scenario =>
        /\ Range(ss.sel[2].opts) = {"V1", "V2"}
        /\ run.filtered = { Rec("A", "V1", "D1", "T1", <<"2">>) }
\* C12, amended: in that scenario the venue options are V1 alone (the V2 row
\* has left the frame before the options are computed) and filtered_df holds
\* only the V1 row.
C12_VenueOptionsFromAvailable ==
    C12_Scenario =>
        /\ ss.sel[2].opts = <<"V1">>
        /\ run.filtered = { Rec("A", "V1", "D1", "T1", <<"2">>) }
C12_Witness == C12_Scenario /\ run.filtered # {} /\ Len(ss.sel[2].opts) = 1

\* a run that rendered the multiselects with no stored choice: the first
\* run of the session, or the run after a click on Refresh
FirstRender == run.outcome = "shown" /\ (run.refresh \/ run.entryAge < 0)
\* the first n entries of q
PrefixSet(q, n) == { q[j] : j \in { k \in 1..Len(q) : k <= n } }

\* C13 as stated: district comes up with its first option, each later level
\* with all its options when they are at most the level's limit, else with none
C13_DefaultsAllOrNothing ==
    FirstRender =>
        /\ run.sel[1] = PrefixSet(ss.sel[1].opts, 1)
        /\ run.sel[2] = IF Len(ss.sel[2].opts) <= VenueDefaultLimit
                        THEN Range(ss.sel[2].opts) ELSE {}
        /\ run.sel[3] = IF Len(ss.sel[3].opts) <= DateDefaultLimit
                        THEN Range(ss.sel[3].opts) ELSE {}
        /\ run.sel[4] = Range(ss.sel[4].opts)
\* C13, amended: district comes up with its first option; venue with its
\* first 3 options when it has at most 5, else none; date with its first 5
\* when it has at most 10, else none; time with all its options.
C13_DefaultsFirstFew ==
    FirstRender =>
        /\ run.sel[1] = PrefixSet(ss.sel[1].opts, 1)
        /\ run.sel[2] = IF Len(ss.sel[2].opts) <= VenueDefaultLimit
                        THEN PrefixSet(ss.sel[2].opts, VenueDefaultCount) ELSE {}
        /\ run.sel[3] = IF Len(ss.sel[3].opts) <= DateDefaultLimit
                        THEN PrefixSet(ss.sel[3].opts, DateDefaultCount) ELSE {}
        /\ run.sel[4] = Range(ss.sel[4].opts)
\* four or five venue options on a first render
C13_Witness ==
    /\ FirstRender
    /\ Len(ss.sel[2].opts) > VenueDefaultCount
    /\ Len(ss.sel[2].opts) <= VenueDefaultLimit

\* the places in the claim's key order whose key the object has with a list value
C14_ListKeys(fields) ==
    { i \in 1..5 :
        /\ <<"data", "contents", "result", "items", "records">>[i] \in DOMAIN fields
        /\ fields[<<"data", "contents", "result", "items", "records">>[i]].list }
\* C14: extract_records returns a list as it is; of an object, the value of
\* the first key in the order data, contents, result, items, records that is
\* present with a list value; and nothing when no key is, or for another value.
C14_Unwrapping ==
    LET resp == api.resp IN
    CASE resp.kind = "list" -> api.records = resp.recs
      [] resp.kind = "object" ->
           LET q == C14_ListKeys(resp.fields) IN
           IF q = {} THEN api.records = {}
           ELSE LET first == CHOOSE i \in q : \A j \in q : i <= j
                IN  api.records =
                      resp.fields[<<"data", "contents", "result", "items", "records">>[first]].recs
      [] OTHER -> api.records = {}
\* an object whose "data" is no list and whose "items" is one
C14_Witness ==
    /\ api.resp.kind = "object"
    /\ {"data", "items"} \subseteq DOMAIN api.resp.fields
    /\ ~api.resp.fields["data"].list
    /\ api.resp.fields["items"].list
    /\ api.records # {}

\* C15: a run ends in the 60-second sleep and rerun only if its checkbox was
\* ticked and it found no match; a run with the checkbox unticked never does.
C15_RecheckOnlyWhileMonitoring ==
    /\ pc = "sleeping" => (run.enable /\ ~run.found)
    /\ ~run.enable => pc = "idle"
\* the monitor was on with a match, and the run after it has it off
C15_Witness ==
    /\ prev.matched
    /\ run.outcome = "shown" /\ ~run.enable
    /\ pc = "idle"

\* C16: a run over no records, or over none with availability, under
\* monitoring ends in the 60-second sleep and rerun like a run without match.
C16_EmptyDataKeepsPolling ==
    (run.outcome \in {"nodata", "noavail"} /\ run.enable) => pc = "sleeping"

\* C17: the options of each level are the distinct non-null values of its
\* column among the records with a positive count that pass every non-empty
\* selection of the levels above it, in ascending order without repetition.
C17_OptionDerivation ==
    run.outcome = "shown" =>
      \A i \in Levels :
        LET q == ss.sel[i].opts
            upstream ==
              { r \in run.raw.recs :
                  /\ CoerceCount(r.Available_Courts) > 0
                  /\ \A j \in 1..(i - 1) :
                        run.sel[j] = {} \/ r[Dim[j]] \in run.sel[j] }
        IN  /\ Range(q) = { r[Dim[i]] : r \in upstream } \ {Null}
            /\ \A a, b \in 1..Len(q) : a < b => Rank(q[a]) < Rank(q[b])
\* a district is chosen, an available record of another district is in the
\* data, and the venue level has options
C17_Witness ==
    /\ run.outcome = "shown"
    /\ run.sel[1] # {}
    /\ \E r \in run.raw.recs :
          /\ CoerceCount(r.Available_Courts) > 0
          /\ r.District_Name_EN \notin run.sel[1] \cup {Null}
    /\ ss.sel[2].opts # <<>>

\* C18: a run sends the notification only with the checkbox ticked in that
\* run and filtered_df not empty; never with the checkbox unticked, after a
\* failed fetch, or with nothing in filtered_df.
C18_NotificationGate ==
    run.notify =>
        /\ run.outcome = "shown" /\ ~run.raw.none
        /\ run.enable /\ ss.mon.val
        /\ run.filtered # {}
C18_Witness == run.notify /\ run.enable /\ run.filtered # {}

\* C19: filtered_df is the scope the funnel has narrowed through district,
\* venue and date, cut down to the chosen times when some are chosen.
C19_FilterPathsAgree ==
    run.outcome = "shown" =>
        run.filtered =
            IF run.sel[4] # {}
            THEN { r \in run.scope : r.Session_Start_Time \in run.sel[4] }
            ELSE run.scope
\* a choice of times that leaves some rows of the scope out
C19_Witness ==
    /\ run.outcome = "shown"
    /\ run.sel[4] # {}
    /\ run.filtered # {} /\ run.filtered # run.scope

\* C20: a run that finds an unexpired entry and was not started by Refresh
\* calls the API not at all and, with the selections of the run before,
\* comes to the same filtered_df and the same target_found; a run after one
\* without match has a match only if the entry had expired, Refresh was
\* clicked, or the selections differ from those of a rendered run before.
C20_PollingBoundedByCache ==
    [][ /\ (RunStep /\ ~run'.refresh /\ cache.has /\ Now < TTL) =>
              /\ run'.fetches = 0
              /\ run'.sel = run.sel =>
                    (run'.found = run.found /\ run'.filtered = run.filtered)
        /\ (RunStep /\ run.outcome # "init" /\ ~run.found /\ run'.found) =>
              \/ run'.refresh
              \/ ~(cache.has /\ Now < TTL)
              \/ (run.outcome = "shown" /\ run'.sel # run.sel) ]_vars
\* under monitoring, a run over the entry of the run before, some time
\* later, with the same selections and the same match
C20_Witness ==
    /\ prev.matched
    /\ run.outcome = "shown" /\ run.enable /\ run.found
    /\ run.sameSel /\ ~run.refresh
    /\ run.fetches = 0 /\ run.entryAge > 0

====
